---- MODULE Spec2Model ----
(***************************************************************************)
(* Model of update_shopify.py: one run of main() reconciles stock level,   *)
(* managed tags and collection membership of the products of a primary     *)
(* store (process_store1) and of the title-matched products of a           *)
(* secondary store (process_store2), through calls wrapped by              *)
(* safe_api_call.                                                          *)
(*                                                                         *)
(* Text is modelled as sequences of one-character strings (titles, feed    *)
(* cells) so that lower(), the title regex and float()/int() are computed, *)
(* and as atomic strings for tags, whose lower()/strip() are tabulated on  *)
(* the tag universe.                                                       *)
(***************************************************************************)
EXTENDS Integers, Sequences, FiniteSets, TLC

(***************************************************************************)
(* Bounds of the model.                                                    *)
(***************************************************************************)
\* cells in a tag list drawn by Init
MaxTags == 2
\* non-success answers the remote gives in one behaviour
MaxRejects == 1
\* nested safe_api_call frames the interpreter allows (stand-in for the
\* interpreter's recursion limit)
RecursionLimit == 2

(***************************************************************************)
(* Characters and text.                                                    *)
(***************************************************************************)
Digits == {"0", "1", "2", "3", "4", "5", "6", "7", "8", "9"}

UpperLetters == {"N", "O", "S", "R", "A", "M", "P", "L", "E", "G", "C"}

LowerLetters == {"n", "o", "s", "r", "a", "m", "p", "l", "e", "u", "d", "b", "x",
                 "k", "g", "i", "f", "t", "c"}

\* str.lower() on one character
LowerChar(c) ==
    CASE c = "N" -> "n" [] c = "O" -> "o" [] c = "S" -> "s" [] c = "R" -> "r"
      [] c = "A" -> "a" [] c = "M" -> "m" [] c = "P" -> "p" [] c = "L" -> "l"
      [] c = "E" -> "e" [] c = "G" -> "g" [] c = "C" -> "c" [] OTHER -> c

\* str.lower() on a text
LowerStr(s) == [i \in 1..Len(s) |-> LowerChar(s[i])]

\* the Python test  sub in s
Contains(sub, s) ==
    \E i \in 1..(Len(s) - Len(sub) + 1) : SubSeq(s, i, i + Len(sub) - 1) = sub

IsDigit(c) == c \in Digits

\* the regex class \w
IsWord(c) == c \in Digits \cup UpperLetters \cup LowerLetters \cup {"_"}

\* the regex class \s
IsSpace(c) == c = " "

DigitVal(c) ==
    CASE c = "0" -> 0 [] c = "1" -> 1 [] c = "2" -> 2 [] c = "3" -> 3
      [] c = "4" -> 4 [] c = "5" -> 5 [] c = "6" -> 6 [] c = "7" -> 7
      [] c = "8" -> 8 [] c = "9" -> 9

AllDigits(s) == \A i \in 1..Len(s) : IsDigit(s[i])

RECURSIVE NatOf(_)
\* value of a non-empty run of decimal digits
NatOf(s) ==
    IF Len(s) = 0 THEN 0
    ELSE 10 * NatOf(SubSeq(s, 1, Len(s) - 1)) + DigitVal(s[Len(s)])

RECURSIVE Pow10(_)
Pow10(n) == IF n = 0 THEN 1 ELSE 10 * Pow10(n - 1)

RECURSIVE Reduce(_, _)
\* a decimal m / 10^e in lowest terms: equal floats get equal values
Reduce(m, e) == IF e > 0 /\ m % 10 = 0 THEN Reduce(m \div 10, e - 1) ELSE <<m, e>>

Signed(sign, r) == <<sign * r[1], r[2]>>

\* float() of  digits  or  digits.digits  (sign: 1 or -1)
FloatVal(sign, ip, fp) ==
    Signed(sign, Reduce(NatOf(ip) * Pow10(Len(fp)) + NatOf(fp), Len(fp)))

SKIP_WORDS == {<<"s", "a", "m", "p", "l", "e">>, <<"b", "u", "n", "d", "l", "e">>}

\* variant: the words are looked for in the title as it is written
skip_product_title_exact(title) ==
    \E w \in SKIP_WORDS : Contains(w, title)

skip_product_title(title) ==
    \E w \in SKIP_WORDS : Contains(w, LowerStr(title))

\* the negative lookahead (?!\s*\d) at position j (1-based, j may be Len+1)
LookaheadOk(s, j) ==
    ~ \E k \in j..Len(s) :
          /\ IsDigit(s[k])
          /\ \A h \in j..(k - 1) : IsSpace(s[h])

\* a run of exactly n digits starts at i
DigitRun(s, i, n) ==
    /\ i + n - 1 <= Len(s)
    /\ \A h \in i..(i + n - 1) : IsDigit(s[h])

\* the ends (last index) at which  \d{n}(\.\d+)?(?!\s*\d)  can match from i
\* with exactly n integer digits, as <<end, fraction length>>
EndsFor(s, i, n) ==
    { <<i + n + m, m>> : m \in { m \in 1..Len(s) :
                             /\ i + n <= Len(s)
                             /\ s[i + n] = "."
                             /\ DigitRun(s, i + n + 1, m)
                             /\ LookaheadOk(s, i + n + m + 1) } }
    \cup (IF LookaheadOk(s, i + n) THEN {<<i + n - 1, 0>>} ELSE {})

MaxOf(S) == CHOOSE a \in S : \A b \in S : b <= a

MinOf(S) == CHOOSE a \in S : \A b \in S : a <= b

\* the longest fraction among the ends es
LongestFrac(es) == MaxOf({ e[2] : e \in es })

\* the numbers of integer digits with which a match from i exists
MatchLens(s, i) == { n \in 1..3 : DigitRun(s, i, n) /\ EndsFor(s, i, n) # {} }

\* the greedy choice among the lengths ns: <<integer digits, fraction digits>>
GreedyMatch(s, i, ns) ==
    IF ns = {} THEN <<>> ELSE <<MaxOf(ns), LongestFrac(EndsFor(s, i, MaxOf(ns)))>>

\* the match the backtracking engine finds at start i: the greedy order is
\* most integer digits first, then the longest fraction, then no fraction;
\* \b before a digit needs a non-word character, or the start, before it
MatchAt(s, i) ==
    IF IsDigit(s[i]) /\ (i = 1 \/ ~ IsWord(s[i - 1]))
    THEN GreedyMatch(s, i, MatchLens(s, i))
    ELSE <<>>

NoNumber == <<>>

\* float(match.group(1)) of the match m at i
GroupValue(s, i, m) ==
    FloatVal(1, SubSeq(s, i, i + m[1] - 1),
             SubSeq(s, i + m[1] + 1, i + m[1] + m[2]))

\* re.search takes the leftmost start that matches
SearchFrom(s, starts) ==
    IF starts = {} THEN NoNumber
    ELSE GroupValue(s, MinOf(starts), MatchAt(s, MinOf(starts)))

SearchNumber(s) == SearchFrom(s, { i \in 1..Len(s) : MatchAt(s, i) # <<>> })

\* re.search(r"\b(\d{1,3}(\.\d+)?)(?!\s*\d)", title.lower()) and float()
extract_perfume_number_from_product_title(title) == SearchNumber(LowerStr(title))

(***************************************************************************)
(* Tags.  A tag field is the list of its comma-separated cells.            *)
(***************************************************************************)
\* the cells a store or the cache may hold before the first run
TagCells == {"Male", " Best Seller", " vip"}

\* str.strip() on a cell
StripTag(c) ==
    CASE c = " vip" -> "vip"
      [] c = " Best Seller" -> "Best Seller"
      [] OTHER -> c

\* str.lower() on a tag
LowerTag(t) ==
    CASE t = "Male" -> "male"
      [] t = "Best Seller" -> "best seller"
      [] t = "BESTSELLER" -> "bestseller"
      [] OTHER -> t

\* code-point order of the tags, as sorted() compares them
TagRank(t) ==
    CASE t = "" -> 0
      [] t = " Best Seller" -> 1
      [] t = " vip" -> 1
      [] t = "BESTSELLER" -> 2
      [] t = "Best Seller" -> 2
      [] t = "Male" -> 3
      [] t = "best seller" -> 4
      [] t = "bestseller" -> 5
      [] t = "female" -> 6
      [] t = "male" -> 7
      [] t = "unisex" -> 8
      [] t = "vip" -> 9

RELEVANT_TAGS == {"male", "female", "unisex", "bestseller"}

SERIES_MAPPING ==
    [t \in RELEVANT_TAGS |->
        CASE t = "male" -> "men"
          [] t = "female" -> "women"
          [] t = "unisex" -> "unisex"
          [] t = "bestseller" -> "bestsellers"]

Range(f) == { f[i] : i \in DOMAIN f }

RECURSIVE SortTags(_)
\* sorted(list(S))
SortTags(S) ==
    IF S = {} THEN <<>>
    ELSE LET m == CHOOSE a \in S : \A b \in S : TagRank(a) <= TagRank(b)
         IN  <<m>> \o SortTags(S \ {m})

\* [t.strip() for t in st.split(",") if t.strip()]
SplitTags(cells) ==
    LET stripped == [i \in 1..Len(cells) |-> StripTag(cells[i])]
    IN  SelectSeq(stripped, LAMBDA t : t # "")

\* variant: the spelling "best seller" is not made canonical
CombinedSet_spelled(taglist, shopify_list) ==
    { LowerTag(x) : x \in Range(taglist \o shopify_list) }

\* lines 367-373: lower-case every tag, "best seller" -> "bestseller", set()
CombinedSet(taglist, shopify_list) ==
    { IF LowerTag(x) = "best seller" THEN "bestseller" ELSE LowerTag(x) :
        x \in Range(taglist \o shopify_list) }

\* variant: the managed tags stay at quantity 0
NewTags_kept(qty, combined_set) == SortTags(combined_set)

\* lines 387-393 and 401-403: the tag list sent for the product
NewTags(qty, combined_set) ==
    IF qty = 0
    THEN SortTags({ t \in combined_set : t \notin RELEVANT_TAGS })
    ELSE SortTags(combined_set)

\* the series named by a tag list
build_series_list(tag_list) ==
    { SERIES_MAPPING[LowerTag(t)] :
        t \in { u \in Range(tag_list) : LowerTag(u) \in DOMAIN SERIES_MAPPING } }

\* lines 399 and 409: the series wanted for the product
WantedSeries(qty, new_t) == IF qty = 0 THEN {} ELSE build_series_list(new_t)

\* lines 281-284: the collection ids of the wanted series
WantedIds(new_series, col_map) ==
    { col_map[s] : s \in new_series \cap DOMAIN col_map }

\* lines 574-579 and 590-595: series -> collection id of each store
CollMap ==
    <<[men |-> 11, women |-> 12, unisex |-> 13, bestsellers |-> 14],
      [men |-> 21, women |-> 22, unisex |-> 23, bestsellers |-> 24]>>

\* collection ids a product may be a member of before the first run; the
\* last one of each store is in no series table
CollIds == <<{11, 12, 19}, {21, 29}>>

(***************************************************************************)
(* The quantity feed: rows of two text cells (lines 322-335, 430-442).     *)
(***************************************************************************)
\* the Unicode minus sign, one character
UMinus == "~"

normalize_minus_sign(value_str) ==
    [i \in 1..Len(value_str) |->
        IF value_str[i] = UMinus THEN "-" ELSE value_str[i]]

RECURSIVE StripText(_)
\* str.strip(), which float() and int() apply to their argument
StripText(s) ==
    IF Len(s) > 0 /\ IsSpace(s[1]) THEN StripText(Tail(s))
    ELSE IF Len(s) > 0 /\ IsSpace(s[Len(s)]) THEN StripText(SubSeq(s, 1, Len(s) - 1))
    ELSE s

HasSign(s) == Len(s) > 0 /\ s[1] \in {"-", "+"}

Unsigned(s) == IF HasSign(s) THEN Tail(s) ELSE s

SignOf(s) == IF Len(s) > 0 /\ s[1] = "-" THEN -1 ELSE 1

\* the position of the first "." of s, or 0
DotAt(s) ==
    IF \E i \in 1..Len(s) : s[i] = "."
    THEN CHOOSE i \in 1..Len(s) : s[i] = "." /\ \A j \in 1..(i - 1) : s[j] # "."
    ELSE 0

IntPart(u, d) == IF d = 0 THEN u ELSE SubSeq(u, 1, d - 1)

FracPart(u, d) == IF d = 0 THEN <<>> ELSE SubSeq(u, d + 1, Len(u))

\* the unsigned text u, with its first "." at d, is a decimal literal
DecimalAt(u, d) ==
    /\ AllDigits(IntPart(u, d))
    /\ AllDigits(FracPart(u, d))
    /\ Len(IntPart(u, d)) + Len(FracPart(u, d)) > 0

Decimal(u) == DecimalAt(u, DotAt(u))

\* float(s) raises ValueError
FloatFails(s) == ~ Decimal(Unsigned(StripText(s)))

FloatAt(sign, u, d) == FloatVal(sign, IntPart(u, d), FracPart(u, d))

FloatParts(sign, u) == FloatAt(sign, u, DotAt(u))

\* float(s) for a text it accepts
FloatOf(s) == FloatParts(SignOf(StripText(s)), Unsigned(StripText(s)))

Whole(u) == AllDigits(u) /\ Len(u) > 0

\* int(s) raises ValueError
IntFails(s) == ~ Whole(Unsigned(StripText(s)))

\* int(s) for a text it accepts
IntOf(s) == SignOf(StripText(s)) * NatOf(Unsigned(StripText(s)))

\* variant: a negative count is stored as it is
PutRow_signed(map, nf, ai) ==
    [k \in DOMAIN map \cup {nf} |-> IF k # nf THEN map[k] ELSE ai]

\* lines 332-333: parfnum_map[nf] = max(ai, 0)
PutRow(map, nf, ai) ==
    [k \in DOMAIN map \cup {nf} |->
        IF k # nf THEN map[k] ELSE IF ai < 0 THEN 0 ELSE ai]

\* lines 327-335 on the two normalized cells of a row
ParseCells(map, raw_n, raw_a) ==
    IF raw_n = <<>> \/ raw_a = <<>> THEN map
    ELSE IF FloatFails(raw_n) \/ IntFails(raw_a) THEN map
    ELSE PutRow(map, FloatOf(raw_n), IntOf(raw_a))

\* one pass of the loop body of lines 324-335 on the map built so far
ParseRow(map, r) ==
    ParseCells(map, normalize_minus_sign(r.n), normalize_minus_sign(r.a))

RECURSIVE BuildParfnumMap(_)
\* parfnum_map after the rows of records, in order
BuildParfnumMap(recs) ==
    IF recs = <<>> THEN <<>>
    ELSE ParseRow(BuildParfnumMap(SubSeq(recs, 1, Len(recs) - 1)), recs[Len(recs)])

(***************************************************************************)
(* State.                                                                  *)
(***************************************************************************)
VARIABLES
    env,        \* names of the environment variables that are set
    records,    \* rows of the quantity feed, each [n, a] of text cells
    cache,      \* relevant_tags_cache: product id -> [row, tags]
    catalog,    \* per store: listing order, title and variants of products
    tags,       \* per store: product id -> live tag cells
    collects,   \* per store: product id -> collection ids it is a member of
    stock,      \* per store: inventory item -> available quantity
    before,     \* tags and collects as they were when the run started
    run,        \* number of the run of main() in progress
    proc,       \* 1 in process_store1, 2 in process_store2
    pc,         \* position of the run
    fetched,    \* out_map / title_map entries of the listing fetch in progress
    store_map,  \* process_store1: the primary listing it iterates over
    store1_id_map, \* process_store2: the primary listing it iterates over
    title_map,  \* lower-cased title -> secondary product
    idx,        \* index in store_map of the product being processed
    cur,        \* locals of the product being processed
    call,       \* the request safe_api_call is making
    depth,      \* nested safe_api_call frames of that request
    rejects,    \* non-success answers given so far
    log         \* answered requests, in order, with run and status

vars == <<env, records, cache, catalog, tags, collects, stock, before, run,
          proc, pc, fetched, store_map, store1_id_map, title_map, idx, cur,
          call, depth, rejects, log>>

maps == <<store_map, store1_id_map, title_map>>

remote == <<tags, collects, stock>>

inputs == <<env, records, cache, catalog>>

\* products of one listing page (the code asks for 250 a page)
PageSize == 1

REQUIRED_ENV == {"DATABASE_URL", "GOOGLE_CREDENTIALS_JSON"}

ALL_ENV == REQUIRED_ENV \cup
    {"STORE1_DOMAIN", "STORE1_TOKEN", "STORE1_LOCATION_ID",
     "STORE2_DOMAIN", "STORE2_TOKEN", "STORE2_LOCATION_ID"}

Min(a, b) == IF a <= b THEN a ELSE b

RECURSIVE SortIds(_)
\* the elements of a set of numbers in ascending order
SortIds(S) ==
    IF S = {} THEN <<>>
    ELSE LET m == CHOOSE a \in S : \A b \in S : a <= b
         IN  <<m>> \o SortIds(S \ {m})

\* page k of a listing, and whether its response carries rel="next"
PageOf(seq, k) == SubSeq(seq, (k - 1) * PageSize + 1, Min(k * PageSize, Len(seq)))

HasNext(seq, k) == k * PageSize < Len(seq)

\* a request: the function and the arguments handed to safe_api_call
Req(op, store, pid, item, qty, tgs, cid, page) ==
    [op |-> op, store |-> store, pid |-> pid, item |-> item, qty |-> qty,
     tags |-> tgs, cid |-> cid, page |-> page]

NoCall == Req("none", 0, "", 0, 0, <<>>, 0, 0)

ProductsReq(store, page) == Req("products", store, "", 0, 0, <<>>, 0, page)

InventoryReq(store, item, qty) == Req("inventory", store, "", item, qty, <<>>, 0, 0)

TagsReq(store, pid, new_tags_list) == Req("tags", store, pid, 0, 0, new_tags_list, 0, 0)

CollectsReq(store, pid, page) == Req("collects", store, pid, 0, 0, <<>>, 0, page)

AddReq(store, pid, cid) == Req("collect_add", store, pid, 0, 0, <<>>, cid, 0)

DeleteReq(store, pid, cid) == Req("collect_delete", store, pid, 0, 0, <<>>, cid, 0)

MUTATIONS == {"inventory", "tags", "collect_add", "collect_delete"}

\* the status the handler of the request tests for
OkStatus(op) == IF op = "collect_add" THEN 201 ELSE 200

NoCur ==
    [store |-> 0, pid |-> "", qty |-> 0, new_t |-> <<>>, series |-> {},
     vars |-> <<>>, existing |-> {}, add_ids |-> {}, remove_ids |-> {}]

\* load_tags_cache: the rows of the cache, their cells stripped
db_tags ==
    [p \in { q \in DOMAIN cache : cache[q].row } |-> SplitTags(cache[p].tags)]

\* variant: a number the feed does not have counts as quantity 0
parfnum_map_zero ==
    [v \in DOMAIN BuildParfnumMap(records) \cup {FloatVal(1, <<"7">>, <<>>)} |->
        IF v \in DOMAIN BuildParfnumMap(records)
        THEN BuildParfnumMap(records)[v] ELSE 0]

parfnum_map == BuildParfnumMap(records)

\* the product dict a listing response holds for pid
Snapshot(store, pid) ==
    [id |-> pid, title |-> catalog[store].title[pid],
     tags |-> tags[store][pid], variants |-> catalog[store].variants[pid]]

\* lines 113-118 and 151-155 for one page: the products kept, in order
KeptOfPage(store, k) ==
    LET page == PageOf(catalog[store].order, k)
        snaps == [i \in 1..Len(page) |-> Snapshot(store, page[i])]
    IN  SelectSeq(snaps, LAMBDA p : ~ skip_product_title(p.title))

\* title_map[t.lower()] = p over the kept products: the last one wins
TitleMapOf(out) ==
    [t \in { LowerStr(out[i].title) : i \in 1..Len(out) } |->
        LET last == CHOOSE i \in 1..Len(out) :
                        /\ LowerStr(out[i].title) = t
                        /\ \A j \in (i + 1)..Len(out) : LowerStr(out[j].title) # t
        IN  out[last]]

\* lines 344-351 and 453-457: the number is found and the feed has it
InFeed(parfnum) == parfnum # NoNumber /\ parfnum \in DOMAIN parfnum_map

\* lines 343-351, 452-457 and 469-472: the product is not skipped
Processed(p, prod, tmap) ==
    /\ InFeed(extract_perfume_number_from_product_title(prod.title))
    /\ p = 2 => LowerStr(prod.title) \in DOMAIN tmap

\* variant: a variant without an inventory item is not passed over
PlanRec_all(p, target, qty, new_t) ==
    [store |-> p, pid |-> target.id, qty |-> qty, new_t |-> new_t,
     series |-> WantedSeries(qty, new_t),
     vars |-> target.variants,
     existing |-> {}, add_ids |-> {}, remove_ids |-> {}]

\* the locals of the product target of store p
PlanRec(p, target, qty, new_t) ==
    [store |-> p, pid |-> target.id, qty |-> qty, new_t |-> new_t,
     series |-> WantedSeries(qty, new_t),
     vars |-> SelectSeq(target.variants, LAMBDA v : v # 0),
     existing |-> {}, add_ids |-> {}, remove_ids |-> {}]

\* lines 362-373 and 485-495: merge of the tag list and the live tags
PlanOf(p, target, qty, taglist) ==
    PlanRec(p, target, qty,
            NewTags(qty, CombinedSet(taglist, SplitTags(target.tags))))

\* variant: the cache row is not consulted
TagListOf_live(prod) == SplitTags(prod.tags)

\* lines 353-360 and 460-466: the tags of the cache row of the primary
\* product, else the primary product's own tags
TagListOf(prod) ==
    IF prod.id \in DOMAIN db_tags THEN db_tags[prod.id] ELSE SplitTags(prod.tags)

\* lines 353-376 and 458-497: the locals of a processed product
PlanFor(p, prod, tmap) ==
    PlanOf(p, IF p = 1 THEN prod ELSE tmap[LowerStr(prod.title)],
           parfnum_map[extract_perfume_number_from_product_title(prod.title)],
           TagListOf(prod))

\* a control point: what the run does next
Ctl(p, c, i, k, r) == [proc |-> p, pc |-> c, idx |-> i, cur |-> k, call |-> r]

\* variant: the removes are made before the adds
CollStep_rev(c) ==
    IF c.remove_ids # {}
    THEN { [pc |-> "remove", cur |-> [c EXCEPT !.remove_ids = @ \ {cid}],
            call |-> DeleteReq(c.store, c.pid, cid)] : cid \in c.remove_ids }
    ELSE { [pc |-> "add", cur |-> [c EXCEPT !.add_ids = @ \ {cid}],
            call |-> AddReq(c.store, c.pid, cid)] : cid \in c.add_ids }

\* lines 290-303: the next add, then the next remove, of the product; the
\* sets are iterated in an order the code does not fix
CollStep(c) ==
    IF c.add_ids # {}
    THEN { [pc |-> "add", cur |-> [c EXCEPT !.add_ids = @ \ {cid}],
            call |-> AddReq(c.store, c.pid, cid)] : cid \in c.add_ids }
    ELSE { [pc |-> "remove", cur |-> [c EXCEPT !.remove_ids = @ \ {cid}],
            call |-> DeleteReq(c.store, c.pid, cid)] : cid \in c.remove_ids }

\* lines 381-384 and 396/406: the next inventory set, else the tag set
ItemStep(c) ==
    IF c.vars # <<>>
    THEN [pc |-> "inventory", cur |-> c,
          call |-> InventoryReq(c.store, Head(c.vars), c.qty)]
    ELSE [pc |-> "tags", cur |-> c, call |-> TagsReq(c.store, c.pid, c.new_t)]

\* the control point of step s of the product at index i
Enter(p, i, s) == Ctl(p, s.pc, i, s.cur, s.call)

\* variant: process_store1 is called again after process_store2
LoopAt_again(p, smap, tmap, cands) ==
    IF cands = {}
    THEN IF p = 1
         THEN Ctl(2, "list1", 0, NoCur, ProductsReq(1, 1))
         ELSE Ctl(1, "list1", 0, NoCur, ProductsReq(1, 1))
    ELSE Enter(p, MinOf(cands), ItemStep(PlanFor(p, smap[MinOf(cands)], tmap)))

\* the loop goes on with the first of the products cands, else it ends:
\* process_store1 returns to main, which calls process_store2 (line 585)
LoopAt(p, smap, tmap, cands) ==
    IF cands = {}
    THEN IF p = 1
         THEN Ctl(2, "list1", 0, NoCur, ProductsReq(1, 1))
         ELSE Ctl(2, "done", 0, NoCur, NoCall)
    ELSE Enter(p, MinOf(cands), ItemStep(PlanFor(p, smap[MinOf(cands)], tmap)))

\* variant: the first product without a secondary match ends the loop
LoopFrom_stop(p, smap, tmap, from) ==
    LoopAt(p, smap, tmap,
           { i \in from..Len(smap) :
               /\ Processed(p, smap[i], tmap)
               /\ \A j \in from..i :
                     InFeed(extract_perfume_number_from_product_title(smap[j].title))
                         => Processed(p, smap[j], tmap) })

\* the loop of lines 341 and 450 from index from on: the first product that
\* is not skipped, else the end of the function
LoopFrom(p, smap, tmap, from) ==
    LoopAt(p, smap, tmap, { i \in from..Len(smap) : Processed(p, smap[i], tmap) })

\* move to control point n
Goto(n) ==
    /\ proc' = n.proc
    /\ pc' = n.pc
    /\ idx' = n.idx
    /\ cur' = n.cur
    /\ call' = n.call
    /\ depth' = 0

\* the answer to the request in flight enters the log
Logged(status) ==
    log' = Append(log, [run |-> run, req |-> call, status |-> status])

\* the remote may answer with a non-success status
MayRefuse(ok) ==
    /\ ok \/ rejects < MaxRejects
    /\ rejects' = IF ok THEN rejects ELSE rejects + 1

Status(ok) == IF ok THEN OkStatus(call.op) ELSE 422

(***************************************************************************)
(* Actions: main() starts, and then one action per answer to the request   *)
(* in flight, which runs the code up to the next request.                  *)
(***************************************************************************)
\* lines 527-569: a missing DATABASE_URL or GOOGLE_CREDENTIALS_JSON raises,
\* else the feed and the cache are read and process_store1 starts its fetch
Main ==
    /\ pc = "start"
    /\ IF REQUIRED_ENV \subseteq env
       THEN Goto(Ctl(1, "list1", 0, NoCur, ProductsReq(1, 1)))
       ELSE Goto(Ctl(1, "failed", 0, NoCur, NoCall))
    /\ fetched' = <<>>
    /\ store_map' = <<>>
    /\ store1_id_map' = <<>>
    /\ title_map' = <<>>
    /\ before' = [tags |-> tags, collects |-> collects, stock |-> stock]
    /\ UNCHANGED <<inputs, remote, run, rejects, log>>

\* variant: a page answered with an error is passed over
PageDone_goon(ok, st, k, out) ==
    IF HasNext(catalog[st].order, k)
    THEN /\ fetched' = out
         /\ Goto(Ctl(proc, pc, idx, cur, ProductsReq(st, k + 1)))
         /\ UNCHANGED maps
    ELSE /\ fetched' = <<>>
         /\ IF pc = "list2"
            THEN /\ title_map' = TitleMapOf(out)
                 /\ UNCHANGED <<store_map, store1_id_map>>
                 /\ Goto(LoopFrom(2, store1_id_map, TitleMapOf(out), 1))
            ELSE IF proc = 1
            THEN /\ store_map' = out
                 /\ UNCHANGED <<store1_id_map, title_map>>
                 /\ Goto(LoopFrom(1, out, title_map, 1))
            ELSE /\ store1_id_map' = out
                 /\ UNCHANGED <<store_map, title_map>>
                 /\ Goto(Ctl(2, "list2", 0, NoCur, ProductsReq(2, 1)))

\* lines 119-134 and 156-171 with the entries out collected so far: the
\* next page is asked for, else the fetch returns and its caller goes on
PageDone(ok, st, k, out) ==
    IF ok /\ HasNext(catalog[st].order, k)
    THEN /\ fetched' = out
         /\ Goto(Ctl(proc, pc, idx, cur, ProductsReq(st, k + 1)))
         /\ UNCHANGED maps
    ELSE /\ fetched' = <<>>
         /\ IF pc = "list2"
            THEN /\ title_map' = TitleMapOf(out)
                 /\ UNCHANGED <<store_map, store1_id_map>>
                 /\ Goto(LoopFrom(2, store1_id_map, TitleMapOf(out), 1))
            ELSE IF proc = 1
            THEN /\ store_map' = out
                 /\ UNCHANGED <<store1_id_map, title_map>>
                 /\ Goto(LoopFrom(1, out, title_map, 1))
            ELSE /\ store1_id_map' = out
                 /\ UNCHANGED <<store_map, title_map>>
                 /\ Goto(Ctl(2, "list2", 0, NoCur, ProductsReq(2, 1)))

\* lines 108-134 and 146-171: one response of the paginated product listing
ProductsPage(ok) ==
    /\ pc \in {"list1", "list2"}
    /\ MayRefuse(ok)
    /\ Logged(Status(ok))
    /\ PageDone(ok, call.store, call.page,
                IF ok THEN fetched \o KeptOfPage(call.store, call.page) ELSE fetched)
    /\ UNCHANGED <<inputs, remote, before, run>>

\* the setting that holds the location id of a store (lines 536, 545)
LocationKey(store) ==
    IF store = 1 THEN "STORE1_LOCATION_ID" ELSE "STORE2_LOCATION_ID"

\* lines 177-193: the answer to inventory_levels/set, then the next variant;
\* without the setting the payload holds location_id None (line 185), which
\* the remote does not accept
update_inventory_level(ok) ==
    /\ pc = "inventory"
    /\ IF LocationKey(call.store) \in env
       THEN MayRefuse(ok)
       ELSE ~ ok /\ UNCHANGED rejects
    /\ Logged(Status(ok))
    /\ stock' = IF ok THEN [stock EXCEPT ![call.store][call.item] = call.qty]
                ELSE stock
    /\ Goto(Enter(proc, idx, ItemStep([cur EXCEPT !.vars = Tail(@)])))
    /\ UNCHANGED <<inputs, tags, collects, before, run, fetched, maps>>

\* variant: a refused tag set ends the run
update_product_tags_abort(ok) ==
    /\ pc = "tags"
    /\ MayRefuse(ok)
    /\ Logged(Status(ok))
    /\ tags' = IF ok THEN [tags EXCEPT ![call.store][call.pid] = call.tags]
               ELSE tags
    /\ IF ok
       THEN Goto(Ctl(proc, "collects", idx, cur, CollectsReq(cur.store, cur.pid, 1)))
       ELSE Goto(Ctl(proc, "failed", idx, cur, NoCall))
    /\ UNCHANGED <<inputs, collects, stock, before, run, fetched, maps>>

\* lines 195-212: the answer to the PUT of the tag string, then line 280
update_product_tags(ok) ==
    /\ pc = "tags"
    /\ MayRefuse(ok)
    /\ Logged(Status(ok))
    /\ tags' = IF ok THEN [tags EXCEPT ![call.store][call.pid] = call.tags]
               ELSE tags
    /\ Goto(Ctl(proc, "collects", idx, cur, CollectsReq(cur.store, cur.pid, 1)))
    /\ UNCHANGED <<inputs, collects, stock, before, run, fetched, maps>>

\* lines 290-303 from the locals c on, then the next product of the loop
AfterColl(c) ==
    IF c.add_ids \cup c.remove_ids = {}
    THEN Goto(LoopFrom(proc, IF proc = 1 THEN store_map ELSE store1_id_map,
                       title_map, idx + 1))
    ELSE \E s \in CollStep(c) : Goto(Enter(proc, idx, s))

\* variant: full replace instead of a difference
Diffed_replace(c, ex, wanted) ==
    [c EXCEPT !.existing = ex, !.add_ids = wanted, !.remove_ids = ex]

\* variant: only memberships in collections of the series table are removed
Diffed_known(c, ex, wanted) ==
    [c EXCEPT !.existing = ex, !.add_ids = wanted \ ex,
              !.remove_ids = (ex \cap { CollMap[c.store][k] :
                                          k \in DOMAIN CollMap[c.store] }) \ wanted]

\* lines 285-288 on the memberships ex that were fetched
Diffed(c, ex, wanted) ==
    [c EXCEPT !.existing = ex, !.add_ids = wanted \ ex, !.remove_ids = ex \ wanted]

\* lines 225-227: the memberships known after page k of listing
Existing(ok, listing, k) ==
    IF ok THEN cur.existing \cup Range(PageOf(listing, k)) ELSE cur.existing

\* variant: a page answered with an error is requested again
CollectsDone_retry(ok, st, k, listing, wanted) ==
    IF ~ ok
    THEN Goto(Ctl(proc, "collects", idx, cur, CollectsReq(st, call.pid, k)))
    ELSE IF HasNext(listing, k)
    THEN Goto(Ctl(proc, "collects", idx,
                  [cur EXCEPT !.existing = Existing(ok, listing, k)],
                  CollectsReq(st, call.pid, k + 1)))
    ELSE AfterColl(Diffed(cur, Existing(ok, listing, k), wanted))

\* lines 228-243: the next page is asked for, else the fetch returns
CollectsDone(ok, st, k, listing, wanted) ==
    IF ok /\ HasNext(listing, k)
    THEN Goto(Ctl(proc, "collects", idx,
                  [cur EXCEPT !.existing = Existing(ok, listing, k)],
                  CollectsReq(st, call.pid, k + 1)))
    ELSE AfterColl(Diffed(cur, Existing(ok, listing, k), wanted))

\* lines 214-243 and 280-288: one response of the paginated collects listing
get_collections_for_product(ok) ==
    /\ pc = "collects"
    /\ MayRefuse(ok)
    /\ Logged(Status(ok))
    /\ CollectsDone(ok, call.store, call.page,
                    SortIds(collects[call.store][call.pid]),
                    WantedIds(cur.series, CollMap[call.store]))
    /\ UNCHANGED <<inputs, remote, before, run, fetched, maps>>

\* lines 245-262: the answer to the POST of a collect
add_product_to_collection(ok) ==
    /\ pc = "add"
    /\ MayRefuse(ok)
    /\ Logged(Status(ok))
    /\ collects' = IF ok
                   THEN [collects EXCEPT ![call.store][call.pid] = @ \cup {call.cid}]
                   ELSE collects
    /\ AfterColl(cur)
    /\ UNCHANGED <<inputs, tags, stock, before, run, fetched, maps>>

\* lines 264-272: the answer to the DELETE of a collect
remove_product_from_collection(ok) ==
    /\ pc = "remove"
    /\ MayRefuse(ok)
    /\ Logged(Status(ok))
    /\ collects' = IF ok
                   THEN [collects EXCEPT ![call.store][call.pid] = @ \ {call.cid}]
                   ELSE collects
    /\ AfterColl(cur)
    /\ UNCHANGED <<inputs, tags, stock, before, run, fetched, maps>>

\* lines 26-34: the request raises RequestException; safe_api_call calls
\* itself with the same arguments, one frame deeper, and once the frames
\* are used up the RecursionError reaches the handler of line 601
safe_api_call_retry ==
    /\ call.op # "none"
    /\ IF depth + 2 <= RecursionLimit
       THEN /\ depth' = depth + 1
            /\ UNCHANGED <<proc, pc, idx, cur, call, fetched>>
       ELSE /\ depth' = depth + 1
            /\ pc' = "failed"
            /\ call' = NoCall
            /\ fetched' = <<>>
            /\ UNCHANGED <<proc, idx, cur>>
    /\ UNCHANGED <<inputs, remote, before, run, maps, rejects, log>>

\* main() is run a second time against the state the first run left
Rerun ==
    /\ pc = "done"
    /\ run = 1
    /\ run' = 2
    /\ Goto(Ctl(1, "start", 0, NoCur, NoCall))
    /\ UNCHANGED <<inputs, remote, before, fetched, maps, rejects, log>>

Answer(ok) ==
    \/ ProductsPage(ok)
    \/ update_inventory_level(ok)
    \/ update_product_tags(ok)
    \/ get_collections_for_product(ok)
    \/ add_product_to_collection(ok)
    \/ remove_product_from_collection(ok)

(***************************************************************************)
(* Initial states.                                                         *)
(***************************************************************************)
T12 == <<"N", "o", " ", "1", "2">>

T12U == <<"N", "O", " ", "1", "2">>

T7 == <<"O", "u", "d", " ", "7">>

T7L == <<"o", "u", "d", " ", "7">>

TRose == <<"R", "o", "s", "e">>

Row(n, a) == [n |-> n, a |-> a]

NoRow == [row |-> FALSE, tags |-> <<>>]

CacheRow(cells) == [row |-> TRUE, tags |-> cells]

\* tag fields of at most MaxTags cells
TagLists == { SortTags(S) : S \in { X \in SUBSET TagCells : Cardinality(X) <= MaxTags } }

\* the cells of a cache row are spellings of managed tags, upper-case ones
\* included (line 76: ['BESTSELLER','Male'])
CacheLists ==
    { SortTags(S) : S \in { X \in SUBSET {"Male", " Best Seller", "BESTSELLER"} :
                              Cardinality(X) <= MaxTags } }

Start ==
    /\ run = 1
    /\ proc = 1
    /\ pc = "start"
    /\ fetched = <<>>
    /\ store_map = <<>>
    /\ store1_id_map = <<>>
    /\ title_map = <<>>
    /\ idx = 0
    /\ cur = NoCur
    /\ call = NoCall
    /\ depth = 0
    /\ rejects = 0
    /\ log = <<>>

\* two primary products and one or two secondary products; the remote may
\* refuse requests and the transport may fail; a setting may be missing:
\* one that main() tests, or one that it does not test
Init ==
    /\ Start
    /\ env \in {ALL_ENV, ALL_ENV \ {"DATABASE_URL"}, ALL_ENV \ {"STORE1_LOCATION_ID"}}
    /\ records \in { <<Row(<<"1", "2">>, <<"3">>), Row(<<"7">>, <<UMinus, "2">>)>>,
                     <<Row(<<"1", "2", ".", "0">>, <<"0">>)>> }
    /\ cache = [a |-> CacheRow(<<"Male">>), b |-> NoRow]
    /\ \E tb \in {T7, TRose}, o2 \in {<<"x">>, <<"x", "y">>} :
          /\ "STORE1_LOCATION_ID" \notin env =>
                Len(records) = 2 /\ tb = T7 /\ o2 = <<"x", "y">>
          /\ catalog = << [order |-> <<"b", "a">>,
                        title |-> [a |-> T12, b |-> tb],
                        variants |-> [a |-> <<1>>, b |-> <<0, 2>>]],
                       [order |-> o2,
                        title |-> [x |-> T12U, y |-> T7L],
                        variants |-> [x |-> <<1>>, y |-> <<>>]] >>
    /\ tags = << [a |-> <<" Best Seller">>, b |-> <<" vip">>],
                 [x |-> <<"Male">>, y |-> <<>>] >>
    /\ collects = << [a |-> {12, 19}, b |-> {}], [x |-> {29}, y |-> {}] >>
    /\ stock = << [i \in 1..2 |-> IF i = 1 THEN 3 ELSE 1], [i \in 1..2 |-> 1] >>
    /\ before = [tags |-> tags, collects |-> collects, stock |-> stock]

\* one primary product and its secondary twin, with every tag field, cache
\* row and quantity of the bounds; every request is answered with success
InitPlan ==
    /\ Start
    /\ env = ALL_ENV
    /\ records \in { <<Row(<<"1", "2">>, <<q>>)>> : q \in {"0", "3"} }
    /\ cache \in { [a |-> c] : c \in {NoRow} \cup { CacheRow(t) : t \in CacheLists } }
    /\ catalog = << [order |-> <<"a">>, title |-> [a |-> T12],
                     variants |-> [a |-> <<1>>]],
                    [order |-> <<"x">>, title |-> [x |-> T12U],
                     variants |-> [x |-> <<1>>]] >>
    /\ tags \in { << [a |-> t1], [x |-> t2] >> : t1 \in TagLists, t2 \in TagLists }
    /\ collects \in { << [a |-> c1], [x |-> c2] >> :
                        c1 \in {{}, {11, 13}}, c2 \in {{21, 29}} }
    /\ stock = << [i \in 1..1 |-> 1], [i \in 1..1 |-> 1] >>
    /\ before = [tags |-> tags, collects |-> collects, stock |-> stock]

\* rows of the feed
MaxRows == 2

Eau149 == <<"E", "a", "u", " ", "d", "e", " ", "P", "a", "r", "f", "u", "m", " ",
            "1", "4", "9">>

GiftCard == <<"1", " ", "0", "0", "0", ",", "0", "0", " ", "k", "r", " ",
              "G", "i", "f", "t", " ", "C", "a", "r", "d">>

Sample149 == <<"S", "A", "m", "p", "l", "e", " ", "1", "4", "9">>

\* the texts of a number cell and of a count cell: empty, a number, the
\* same number written as a float, no number; empty, a count, a negative
\* count with U+2212, a float
NumberCells == {<<>>, <<"1", "4", "9">>, <<"1", "4", "9", ".", "0">>, <<"x">>}

CountCells == {<<>>, <<"3">>, <<UMinus, "2">>, <<"3", ".", "0">>}

FeedRows == { Row(n, a) : n \in NumberCells, a \in CountCells }

\* the feeds of at most MaxRows rows
Feeds == UNION { [1..k -> FeedRows] : k \in 0..MaxRows }

\* every feed of the bounds; a catalog with an excluded product and its
\* twin, a gift card and a perfume in store 1 and its twin in store 2;
\* every request is answered with success
InitFeed ==
    /\ Start
    /\ env = ALL_ENV
    /\ records \in Feeds
    /\ cache = [a |-> CacheRow(<<"Male">>), g |-> NoRow, s |-> CacheRow(<<"Male">>)]
    /\ catalog = << [order |-> <<"s", "g", "a">>,
                     title |-> [a |-> Eau149, g |-> GiftCard, s |-> Sample149],
                     variants |-> [a |-> <<1>>, g |-> <<2>>, s |-> <<3>>]],
                    [order |-> <<"t", "x">>,
                     title |-> [t |-> LowerStr(Sample149), x |-> LowerStr(Eau149)],
                     variants |-> [t |-> <<2>>, x |-> <<1>>]] >>
    /\ tags = << [a |-> <<" Best Seller">>, g |-> <<>>, s |-> <<"Male">>],
                 [t |-> <<"Male">>, x |-> <<"Male">>] >>
    /\ collects = << [a |-> {12}, g |-> {}, s |-> {11}], [t |-> {21}, x |-> {29}] >>
    /\ stock = << [i \in 1..3 |-> 1], [i \in 1..2 |-> 1] >>
    /\ before = [tags |-> tags, collects |-> collects, stock |-> stock]

Next ==
    \/ Main
    \/ \E ok \in BOOLEAN : Answer(ok)
    \/ safe_api_call_retry
    \/ Rerun

Spec == Init /\ [][Next]_vars

NextPlan ==
    \/ Main
    \/ Answer(TRUE)

PlanSpec == InitPlan /\ [][NextPlan]_vars

FeedSpec == InitFeed /\ [][NextPlan]_vars

\* one run in which the remote may refuse requests and the transport holds
NextSeq ==
    \/ Main
    \/ \E ok \in BOOLEAN : Answer(ok)

SeqSpec == Init /\ [][NextSeq]_vars

\* one run in which the remote may refuse requests and the transport may
\* fail
NextLive ==
    \/ Main
    \/ \E ok \in BOOLEAN : Answer(ok)
    \/ safe_api_call_retry

\* lines 28-30: the request in flight gets a response, which is the step
\* that enters it in the log
Answered ==
    /\ call # NoCall
    /\ \E status \in {200, 201, 422} :
          log' = Append(log, [run |-> run, req |-> call, status |-> status])

\* main() is started and runs in one thread, and a request in flight is
\* answered unless it runs out of retries
LiveSpec ==
    /\ Init
    /\ [][NextLive]_vars
    /\ WF_vars(Main)
    /\ WF_log(Answered)

(***************************************************************************)
(* Vocabulary of the properties.                                           *)
(***************************************************************************)
\* the comparison form of a tag: stripped, lower-cased, one spelling of
\* "bestseller"
NormTag(c) ==
    IF LowerTag(StripTag(c)) = "best seller" THEN "bestseller"
    ELSE LowerTag(StripTag(c))

NormSet(cells) == { NormTag(c) : c \in Range(cells) } \ {""}

Managed(S) == S \cap RELEVANT_TAGS

NonManaged(S) == S \ RELEVANT_TAGS

Stores == {1, 2}

Pids(st) == DOMAIN tags[st]

\* the primary product a product is reconciled from: itself in the primary
\* store, the product of the same lower-cased title for a secondary product
PrimaryOf(st, pid) ==
    IF st = 1 THEN pid
    ELSE CHOOSE p \in Pids(1) :
            LowerStr(catalog[1].title[p]) = LowerStr(catalog[2].title[pid])

\* the feed's quantity for the product
Qty(st, pid) ==
    parfnum_map[extract_perfume_number_from_product_title(catalog[st].title[pid])]

HasRow(st, pid) == cache[PrimaryOf(st, pid)].row

CacheTags(st, pid) ==
    IF HasRow(st, pid) THEN NormSet(cache[PrimaryOf(st, pid)].tags) ELSE {}

\* the entries of this run's log that set the tags of the product
TagEntries(st, pid) ==
    { i \in 1..Len(log) :
        /\ log[i].run = run
        /\ log[i].req.op = "tags"
        /\ log[i].req.store = st
        /\ log[i].req.pid = pid }

\* the entries of this run's log that add the product to, or delete it
\* from, collection cid
CollEntries(op, st, pid, cid) ==
    { i \in 1..Len(log) :
        /\ log[i].run = run
        /\ log[i].req.op = op
        /\ log[i].req.store = st
        /\ log[i].req.pid = pid
        /\ log[i].req.cid = cid }

\* this run has processed the product and has left it
Finished(st, pid) ==
    /\ TagEntries(st, pid) # {}
    /\ ~ (cur.store = st /\ cur.pid = pid)

\* the collection ids of the series of a set of normal-form tags
SeriesIds(st, S) == { CollMap[st][SERIES_MAPPING[t]] : t \in Managed(S) }

\* every collection id of the stores: configured, or with a member
AllCollIds ==
    UNION { UNION { before.collects[st][p] \cup collects[st][p] : p \in Pids(st) }
            \cup { CollMap[st][k] : k \in DOMAIN CollMap[st] } : st \in Stores }

(***************************************************************************)
(* C1.  Idempotence: run a second time against the state the first run     *)
(* left, with the same feed and cache, main() emits no mutation: no        *)
(* inventory set, no tag set, no collection add, no collection remove.     *)
(* The code sets the inventory of every variant and the tags of every      *)
(* processed product on every run.                                         *)
(***************************************************************************)
C1_SecondRunEmitsNothing ==
    rejects = 0 =>
        \A i \in 1..Len(log) : log[i].run = 2 => log[i].req.op \notin MUTATIONS

(***************************************************************************)
(* C2.  Zero quantity: once a product has been processed with a feed       *)
(* quantity of 0 (every request answered with success), its live tags hold *)
(* no managed tag in any letter case or spelling, and it is a member of no *)
(* collection.                                                             *)
(***************************************************************************)
C2_ZeroQuantityStripsAll ==
    \A st \in Stores : \A pid \in Pids(st) :
        (Finished(st, pid) /\ Qty(st, pid) = 0) =>
            /\ Managed(NormSet(tags[st][pid])) = {}
            /\ collects[st][pid] = {}

C2_Witness ==
    /\ Finished(2, "x")
    /\ Qty(2, "x") = 0
    /\ Managed(NormSet(before.tags[2]["x"])) # {}
    /\ before.collects[2]["x"] # {}
    /\ tags[2]["x"] # <<>>

(***************************************************************************)
(* C3.  As claimed: after processing, the live tags of a product are       *)
(* exactly its former non-managed tags plus, if the quantity is > 0, the   *)
(* managed tags of its cache row (no row: no managed tag).                 *)
(***************************************************************************)
C3_Original ==
    \A st \in Stores : \A pid \in Pids(st) :
        Finished(st, pid) =>
            NormSet(tags[st][pid]) =
                NonManaged(NormSet(before.tags[st][pid]))
                \cup (IF Qty(st, pid) > 0 THEN Managed(CacheTags(st, pid)) ELSE {})

\* the tags merged into the live tags of the product: those of the cache
\* row, else those the primary product has when it is read
MergedSource(st, pid) ==
    IF HasRow(st, pid) THEN CacheTags(st, pid)
    ELSE IF st = 1 THEN NormSet(before.tags[1][pid])
    ELSE NormSet(tags[1][PrimaryOf(st, pid)])

(***************************************************************************)
(* C3, amended.  After processing (every request answered with success),   *)
(* the live tags of a product are exactly, in comparison form, its former  *)
(* tags united with the tags of its cache row (without a row: with the     *)
(* tags of the primary product), less every managed tag if the quantity is *)
(* 0; with a quantity > 0 nothing is removed, so a managed tag that was    *)
(* live but is not cached stays.                                           *)
(***************************************************************************)
C3_LiveTagsAfter ==
    \A st \in Stores : \A pid \in Pids(st) :
        Finished(st, pid) =>
            NormSet(tags[st][pid]) =
                IF Qty(st, pid) = 0
                THEN NonManaged(NormSet(before.tags[st][pid]) \cup MergedSource(st, pid))
                ELSE NormSet(before.tags[st][pid]) \cup MergedSource(st, pid)

C3_Witness ==
    /\ Finished(1, "a")
    /\ Qty(1, "a") > 0
    /\ HasRow(1, "a")
    /\ "male" \in NormSet(before.tags[1]["a"]) \ CacheTags(1, "a")
    /\ "bestseller" \in CacheTags(1, "a") \ NormSet(before.tags[1]["a"])
    /\ {"male", "bestseller"} \subseteq NormSet(tags[1]["a"])

(***************************************************************************)
(* C4.  Non-managed tags are preserved: the non-managed tags of every tag  *)
(* list sent for a product are exactly the non-managed tags the product    *)
(* had in that store before.  Without a cache row the code adds the tags   *)
(* of the primary product, non-managed ones included, to the list.         *)
(***************************************************************************)
C4_NonManagedPreserved ==
    \A st \in Stores : \A pid \in Pids(st) : \A i \in TagEntries(st, pid) :
        NonManaged(NormSet(log[i].req.tags)) = NonManaged(NormSet(before.tags[st][pid]))

(***************************************************************************)
(* C5.  Restoration: the tag list sent for a product that has a cache row  *)
(* and a quantity > 0 holds every managed tag of the row and every tag the *)
(* product had in that store, in comparison form.                          *)
(***************************************************************************)
C5_PositiveQuantityRestores ==
    \A st \in Stores : \A pid \in Pids(st) : \A i \in TagEntries(st, pid) :
        (Qty(st, pid) > 0 /\ HasRow(st, pid)) =>
            /\ Managed(CacheTags(st, pid)) \subseteq Range(log[i].req.tags)
            /\ NormSet(before.tags[st][pid]) \subseteq Range(log[i].req.tags)

C5_Witness ==
    \E i \in TagEntries(2, "x") :
        /\ Qty(2, "x") > 0
        /\ HasRow(2, "x")
        /\ Managed(CacheTags(2, "x")) \ NormSet(before.tags[2]["x"]) # {}
        /\ NonManaged(NormSet(before.tags[2]["x"])) # {}
        /\ log[i].status = 200

(***************************************************************************)
(* C6.  Collections of a product with a quantity > 0: after processing the *)
(* product is a member of exactly the collections configured for the       *)
(* series of the managed tags of its cache row, whatever its live tags.    *)
(* The code derives the series from the merged tag list.                   *)
(***************************************************************************)
C6_CollectionsFromCacheOnly ==
    \A st \in Stores : \A pid \in Pids(st) :
        (Finished(st, pid) /\ Qty(st, pid) > 0) =>
            collects[st][pid] = SeriesIds(st, CacheTags(st, pid))

\* the collection ids wanted for the product, from the tag list sent for it
WantedOf(st, pid) ==
    UNION { SeriesIds(st, Range(log[i].req.tags)) : i \in TagEntries(st, pid) }

(***************************************************************************)
(* C7.  Minimal diff: for a processed product there is exactly one add     *)
(* for each wanted collection it was not a member of, exactly one delete   *)
(* for each collection it was a member of that is not wanted, and no add   *)
(* or delete for any other collection.                                     *)
(***************************************************************************)
C7_MinimalCollectionDiff ==
    \A st \in Stores : \A pid \in Pids(st) : \A cid \in AllCollIds :
        LET adds == Cardinality(CollEntries("collect_add", st, pid, cid))
            dels == Cardinality(CollEntries("collect_delete", st, pid, cid))
            toAdd == cid \in WantedOf(st, pid) \ before.collects[st][pid]
            toDel == cid \in before.collects[st][pid] \ WantedOf(st, pid)
        IN  /\ adds <= (IF toAdd THEN 1 ELSE 0)
            /\ dels <= (IF toDel THEN 1 ELSE 0)
            /\ Finished(st, pid) => (adds = 1 <=> toAdd) /\ (dels = 1 <=> toDel)

C7_Witness ==
    /\ Finished(1, "a")
    /\ before.collects[1]["a"] = {11, 13}
    /\ WantedOf(1, "a") = {11, 14}
    /\ Cardinality(CollEntries("collect_add", 1, "a", 14)) = 1
    /\ Cardinality(CollEntries("collect_delete", 1, "a", 13)) = 1
    /\ collects[1]["a"] = {11, 14}

(***************************************************************************)
(* C8.  A tag set is emitted for a product only when the target tag set    *)
(* differs from the live tag set of the product, both in comparison form.  *)
(* The code calls update_product_tags for every processed product.         *)
(***************************************************************************)
C8_TagSetOnlyOnChange ==
    \A st \in Stores : \A pid \in Pids(st) : \A i \in TagEntries(st, pid) :
        NormSet(log[i].req.tags) # NormSet(before.tags[st][pid])

(***************************************************************************)
(* C9.  A transport failure is never surfaced as a run failure: the run    *)
(* fails only for a missing setting.  safe_api_call retries by calling     *)
(* itself, so a request that keeps failing uses up the frames of the       *)
(* interpreter and the RecursionError ends the run.                        *)
(***************************************************************************)
C9_TransportFailureNeverFailsRun ==
    pc = "failed" => ~ (REQUIRED_ENV \subseteq env)

\* the entries of this run's log with the request r
SameReq(r) == { j \in 1..Len(log) : log[j].run = run /\ log[j].req = r }

\* the memberships of the product that this run's collects listing returned
FetchedIds(st, pid) ==
    UNION { Range(PageOf(SortIds(before.collects[st][pid]), log[i].req.page)) :
              i \in { j \in 1..Len(log) :
                        /\ log[j].run = run
                        /\ log[j].req.op = "collects"
                        /\ log[j].req.store = st
                        /\ log[j].req.pid = pid
                        /\ log[j].status = 200 } }

\* every mutation of the product target has been issued in this run
Attempted(st, target, qty) ==
    /\ \A k \in 1..Len(target.variants) :
          target.variants[k] # 0 =>
              SameReq(InventoryReq(st, target.variants[k], qty)) # {}
    /\ TagEntries(st, target.id) # {}
    /\ \A cid \in WantedOf(st, target.id) \ FetchedIds(st, target.id) :
          CollEntries("collect_add", st, target.id, cid) # {}
    /\ \A cid \in FetchedIds(st, target.id) \ WantedOf(st, target.id) :
          CollEntries("collect_delete", st, target.id, cid) # {}

\* the feed's quantity for a product dict
QtyOf(prod) == parfnum_map[extract_perfume_number_from_product_title(prod.title)]

(***************************************************************************)
(* C10.  A refused mutation is local: a mutation answered with a           *)
(* non-success status is issued exactly once in the run, the refusal does  *)
(* not end the run, and when the run is done every mutation of every       *)
(* processed product of both stores has been issued: each inventory set,   *)
(* the tag set, and each add and delete of the collection diff.            *)
(***************************************************************************)
C10_RefusalIsLocal ==
    /\ \A i \in 1..Len(log) :
          (log[i].run = run /\ log[i].req.op \in MUTATIONS
                /\ log[i].status # OkStatus(log[i].req.op)) =>
              SameReq(log[i].req) = {i}
    /\ pc = "failed" => (~ (REQUIRED_ENV \subseteq env) \/ depth >= RecursionLimit)
    /\ pc = "done" =>
          /\ \A i \in 1..Len(store_map) :
                Processed(1, store_map[i], title_map) =>
                    Attempted(1, store_map[i], QtyOf(store_map[i]))
          /\ \A i \in 1..Len(store1_id_map) :
                Processed(2, store1_id_map[i], title_map) =>
                    Attempted(2, title_map[LowerStr(store1_id_map[i].title)],
                              QtyOf(store1_id_map[i]))

C10_Witness ==
    /\ pc = "done"
    /\ \E i \in TagEntries(1, "a") :
          /\ log[i].status = 422
          /\ \E j \in (i + 1)..Len(log) :
                /\ log[j].run = run
                /\ log[j].req.op \in {"collect_add", "collect_delete"}
                /\ log[j].req.pid = "a"
          /\ \E j \in (i + 1)..Len(log) :
                /\ log[j].run = run
                /\ log[j].req.op \in MUTATIONS
                /\ log[j].req.store = 2

\* the product of store st a request is made for
OwnerOf(st, r) ==
    IF r.op = "inventory"
    THEN { p \in Pids(st) : r.item \in Range(catalog[st].variants[p]) }
    ELSE {r.pid}

\* the entries of this run's log made for product pid of store st
CallsFor(st, pid) ==
    { i \in 1..Len(log) :
        /\ log[i].run = run
        /\ log[i].req.store = st
        /\ log[i].req.op # "products"
        /\ pid \in OwnerOf(st, log[i].req) }

\* the primary products read by process_store2 that the feed has and that
\* have no entry in the title index
Unmatched ==
    { i \in 1..Len(store1_id_map) :
        /\ InFeed(extract_perfume_number_from_product_title(store1_id_map[i].title))
        /\ LowerStr(store1_id_map[i].title) \notin DOMAIN title_map }

\* the secondary products of the title index that a primary product read
\* by process_store2 matches
MatchedIds ==
    { title_map[LowerStr(store1_id_map[i].title)].id :
        i \in { j \in 1..Len(store1_id_map) :
                  Processed(2, store1_id_map[j], title_map) } }

(***************************************************************************)
(* C11.  Two-store skip: every call against the secondary store other than *)
(* the listing is made for the match of a primary product, so a primary    *)
(* product whose lower-cased title has no entry in the title index causes  *)
(* none; when the run is done the primary products that do match have had  *)
(* their secondary product reconciled, the ones after an unmatched product *)
(* included, and the unmatched product itself has been reconciled in the   *)
(* primary store.                                                          *)
(***************************************************************************)
C11_UnmatchedProductSkipped ==
    /\ \A pid \in Pids(2) : CallsFor(2, pid) # {} => pid \in MatchedIds
    /\ pc = "done" =>
          /\ \A pid \in MatchedIds : TagEntries(2, pid) # {}
          /\ \A i \in Unmatched :
                \A k \in 1..Len(store_map) :
                    store_map[k].id = store1_id_map[i].id =>
                        Attempted(1, store_map[k], QtyOf(store_map[k]))

C11_Witness ==
    /\ pc = "done"
    /\ \E i \in Unmatched :
          /\ store1_id_map[i].id = "b"
          /\ TagEntries(1, "b") # {}
          /\ \E j \in (i + 1)..Len(store1_id_map) :
                /\ Processed(2, store1_id_map[j], title_map)
                /\ TagEntries(2, "x") # {}
    /\ CallsFor(2, "y") = {}

\* the title yields no number, or the feed has no quantity for the number
NoQuantity(title) ==
    \/ extract_perfume_number_from_product_title(title) = NoNumber
    \/ extract_perfume_number_from_product_title(title)
           \notin DOMAIN BuildParfnumMap(records)

(***************************************************************************)
(* C12.  A product whose title yields no number, or whose number the feed  *)
(* does not have, is skipped entirely: no inventory, tag or collection     *)
(* call is made for it in either store, the run does not fail for it, and  *)
(* when the run is done the products listed after it that have a quantity  *)
(* have been reconciled.                                                   *)
(***************************************************************************)
C12_NoQuantitySkipped ==
    /\ \A st \in Stores : \A pid \in Pids(st) :
          NoQuantity(catalog[st].title[pid]) => CallsFor(st, pid) = {}
    /\ pc = "failed" => (~ (REQUIRED_ENV \subseteq env) \/ depth >= RecursionLimit)
    /\ pc = "done" =>
          \A i \in 1..Len(store_map) :
              ~ NoQuantity(store_map[i].title) => TagEntries(1, store_map[i].id) # {}

C12_Witness ==
    /\ pc = "done"
    /\ Len(store_map) = 2
    /\ store_map[1].id = "b"
    /\ extract_perfume_number_from_product_title(store_map[1].title) # NoNumber
    /\ NoQuantity(store_map[1].title)
    /\ LowerStr(catalog[1].title["b"]) \in DOMAIN title_map
    /\ CallsFor(1, "b") = {}
    /\ CallsFor(2, "y") = {}
    /\ TagEntries(1, "a") # {}
    /\ TagEntries(2, "x") # {}

\* the ids of a list of product dicts, in order
IdsOf(seq) == [i \in 1..Len(seq) |-> seq[i].id]

\* a page request of a product listing is answered with an error
RefusedPage ==
    /\ pc \in {"list1", "list2"}
    /\ Len(log') = Len(log) + 1
    /\ log'[Len(log')].status # 200

\* the fetch returns the products collected from the pages read before,
\* and the next request, if a listing, is the first page of another fetch
FetchStops ==
    /\ fetched' = <<>>
    /\ call'.op = "products" => call'.page = 1 /\ (pc' # pc \/ proc' # proc)
    /\ IF pc = "list2" THEN title_map' = TitleMapOf(fetched)
       ELSE IF proc = 1 THEN store_map' = fetched
       ELSE store1_id_map' = fetched

\* process_store1 makes calls for the products its fetch returned, and for
\* all of them that have a quantity
ReconcilesFetched ==
    /\ \A pid \in Pids(1) :
          CallsFor(1, pid) # {} => \E i \in 1..Len(store_map) : store_map[i].id = pid
    /\ pc = "done" =>
          \A i \in 1..Len(store_map) :
              ~ NoQuantity(store_map[i].title) => TagEntries(1, store_map[i].id) # {}

(***************************************************************************)
(* C13.  Catalog fetch on an HTTP error: when a page request of a product  *)
(* listing is answered with a non-200 status, no further page of that      *)
(* listing is requested, the fetch returns the products collected from the *)
(* pages read before, and the run reconciles exactly those products.       *)
(***************************************************************************)
C13_FetchStopsOnError ==
    /\ [][RefusedPage => FetchStops]_vars
    /\ [] ReconcilesFetched

C13_Witness ==
    /\ pc = "done"
    /\ IdsOf(store_map) = <<"b">>
    /\ IdsOf(store1_id_map) = <<"b", "a">>
    /\ \E i \in 1..Len(log) :
          /\ log[i].req = ProductsReq(1, 2)
          /\ log[i].status # 200
          /\ log[i + 1].req.op = "inventory"
    /\ TagEntries(1, "b") # {}
    /\ CallsFor(1, "a") = {}
    /\ TagEntries(2, "x") # {}

\* the entries of this run's log
ThisRun == { i \in 1..Len(log) : log[i].run = run }

(***************************************************************************)
(* C14.  Store ordering: within a run every call against the primary store *)
(* comes before every call against the secondary store, so no mutation of  *)
(* the secondary store is interleaved with the primary reconciliation;     *)
(* while process_store1 runs, no request is made to the secondary store.   *)
(***************************************************************************)
C14_PrimaryBeforeSecondary ==
    /\ \A i \in 1..Len(log) : \A j \in (i + 1)..Len(log) :
          (log[i].run = log[j].run /\ log[i].req.store = 2) => log[j].req.store = 2
    /\ proc = 1 => call.store # 2
    /\ ~ (call.store = 1 /\ \E i \in ThisRun : log[i].req.store = 2)

C14_Witness ==
    /\ pc = "done"
    /\ \E i \in ThisRun : \E j \in ThisRun :
          /\ i < j
          /\ log[i].req.store = 1 /\ log[i].req.op \in {"collect_add", "collect_delete"}
          /\ log[j].req.store = 2 /\ log[j].req.op = "inventory"
    /\ \E i \in ThisRun : log[i].req.store = 1 /\ log[i].req.op = "tags"
    /\ \E i \in ThisRun : log[i].req.store = 2 /\ log[i].req.op = "tags"

\* the place of a request in the order of the calls made for one product
OpRank(op) ==
    CASE op = "inventory" -> 1
      [] op = "tags" -> 2
      [] op = "collects" -> 3
      [] op = "collect_add" -> 4
      [] op = "collect_delete" -> 5

(***************************************************************************)
(* C15.  Per-product ordering: the calls made for one product come in the  *)
(* order inventory sets, tag set, membership fetch, adds, removes, so the  *)
(* fetch of the memberships is complete before the first add or remove;    *)
(* every add is for a wanted collection the fetch did not return and every *)
(* remove for a returned collection that is not wanted.                    *)
(***************************************************************************)
C15_ReadThenWrite ==
    \A st \in Stores : \A pid \in Pids(st) :
        /\ \A j \in CallsFor(st, pid) : \A i \in 1..(j - 1) :
              (log[i].run = run /\ log[i].req.store = st
                    /\ log[i].req.op # "products"
                    /\ pid \in OwnerOf(st, log[i].req)) =>
                  OpRank(log[i].req.op) <= OpRank(log[j].req.op)
        /\ \A cid \in AllCollIds :
              /\ CollEntries("collect_add", st, pid, cid) # {} =>
                    cid \in WantedOf(st, pid) \ FetchedIds(st, pid)
              /\ CollEntries("collect_delete", st, pid, cid) # {} =>
                    cid \in FetchedIds(st, pid) \ WantedOf(st, pid)

C15_Witness ==
    /\ Finished(1, "a")
    /\ { log[i].req.op : i \in CallsFor(1, "a") } =
          {"inventory", "tags", "collects", "collect_add", "collect_delete"}
    /\ \A i \in CallsFor(1, "a") : log[i].status = OkStatus(log[i].req.op)
    /\ FetchedIds(1, "a") = {12, 19}
    /\ collects[1]["a"] = WantedOf(1, "a")
    /\ WantedOf(1, "a") # {}

\* the row has two non-empty fields that parse, U+2212 read as a minus
RowParses(r) ==
    /\ r.n # <<>>
    /\ r.a # <<>>
    /\ ~ FloatFails(normalize_minus_sign(r.n))
    /\ ~ IntFails(normalize_minus_sign(r.a))

ParsedRows == { i \in 1..Len(records) : RowParses(records[i]) }

NumberAt(i) == FloatOf(normalize_minus_sign(records[i].n))

CountAt(i) == IntOf(normalize_minus_sign(records[i].a))

(***************************************************************************)
(* C16.  Feed parsing: the quantity map has an entry exactly for the       *)
(* numbers of the rows that parse; the entry of a number is max(0, count)  *)
(* of the last row that parses and has that number; every value is a       *)
(* non-negative integer.  A row with an empty or unparsable field creates  *)
(* no entry and overwrites none.                                           *)
(***************************************************************************)
C16_LastParsedRowWins ==
    /\ DOMAIN parfnum_map = { NumberAt(i) : i \in ParsedRows }
    /\ \A i \in ParsedRows :
          (\A j \in ParsedRows : j > i => NumberAt(j) # NumberAt(i)) =>
              parfnum_map[NumberAt(i)] = (IF CountAt(i) < 0 THEN 0 ELSE CountAt(i))
    /\ \A v \in DOMAIN parfnum_map : parfnum_map[v] \in Nat

C16_Witness ==
    /\ pc = "done"
    /\ Len(records) = 2
    /\ records[1] = Row(<<"1", "4", "9">>, <<"3">>)
    /\ records[2] = Row(<<"1", "4", "9", ".", "0">>, <<UMinus, "2">>)
    /\ parfnum_map[NumberAt(1)] = 0
    /\ \E i \in ThisRun : log[i].req = InventoryReq(1, 1, 0)

\* the inventory sets of this run for item v of store st
InventoryEntries(st, v) ==
    { i \in ThisRun :
        /\ log[i].req.op = "inventory"
        /\ log[i].req.store = st
        /\ log[i].req.item = v }

(***************************************************************************)
(* C17.  Quantity mutation: every inventory set is for a variant that has  *)
(* an inventory item, carries the feed's quantity of the product, and is   *)
(* the only one of the run for that item; once the tag set of a product    *)
(* has been issued each of its variants with an inventory item has had its *)
(* set, changed quantity or not; a product without such a variant gets no  *)
(* inventory call and its tags and collections are reconciled all the same.*)
(***************************************************************************)
C17_OneInventorySetPerVariant ==
    /\ \A i \in ThisRun :
          log[i].req.op = "inventory" =>
              /\ log[i].req.item # 0
              /\ InventoryEntries(log[i].req.store, log[i].req.item) = {i}
              /\ \A p \in OwnerOf(log[i].req.store, log[i].req) :
                    log[i].req.qty = Qty(log[i].req.store, p)
    /\ \A st \in Stores : \A pid \in Pids(st) :
          TagEntries(st, pid) # {} =>
              \A k \in 1..Len(catalog[st].variants[pid]) :
                  catalog[st].variants[pid][k] # 0 =>
                      InventoryEntries(st, catalog[st].variants[pid][k]) # {}
    /\ pc = "done" =>
          \A pid \in MatchedIds :
              /\ TagEntries(2, pid) # {}
              /\ \E i \in CallsFor(2, pid) : log[i].req.op = "collects"

C17_Witness ==
    /\ pc = "done"
    /\ catalog[2].variants["y"] = <<>>
    /\ { log[i].req.op : i \in CallsFor(2, "y") } = {"tags", "collects"}
    /\ catalog[1].variants["b"] = <<0, 2>>
    /\ Cardinality(InventoryEntries(1, 2)) = 1
    /\ before.stock[1][1] = Qty(1, "a")
    /\ \E i \in InventoryEntries(1, 1) :
          log[i].req.qty = before.stock[1][1] /\ log[i].status = 200

(***************************************************************************)
(* C18.  Missing configuration is fatal at startup: when any required      *)
(* value is missing (a store domain, token or location id, the cache       *)
(* connection string, the feed credentials) no request is issued against   *)
(* any store.  main() tests DATABASE_URL and GOOGLE_CREDENTIALS_JSON only. *)
(***************************************************************************)
C18_MissingConfigurationIsFatal ==
    ~ (ALL_ENV \subseteq env) => (log = <<>> /\ call = NoCall)

\* the title holds 'sample' or 'bundle' in some letter case
Excluded(title) ==
    \E w \in {<<"s", "a", "m", "p", "l", "e">>, <<"b", "u", "n", "d", "l", "e">>} :
        \E i \in 1..Len(title) :
            /\ i + Len(w) - 1 <= Len(title)
            /\ \A k \in 1..Len(w) : LowerChar(title[i + k - 1]) = w[k]

(***************************************************************************)
(* C19.  Excluded products are never reconciled: no inventory, tag or      *)
(* collection call is made, or in flight, for a product of either store    *)
(* whose title holds 'sample' or 'bundle' in any letter case, whatever the *)
(* feed holds.                                                             *)
(***************************************************************************)
C19_ExcludedNeverReconciled ==
    \A st \in Stores : \A pid \in Pids(st) :
        Excluded(catalog[st].title[pid]) =>
            /\ CallsFor(st, pid) = {}
            /\ ~ (call.store = st /\ call.op # "products" /\ pid \in OwnerOf(st, call))
            /\ \A i \in 1..Len(store_map) : store_map[i].id # pid
            /\ \A t \in DOMAIN title_map : title_map[t].id # pid

C19_Witness ==
    /\ pc = "done"
    /\ Excluded(catalog[1].title["s"])
    /\ Excluded(catalog[2].title["t"])
    /\ ~ NoQuantity(catalog[1].title["s"])
    /\ cache["s"].row
    /\ \E i \in ThisRun : log[i].req = ProductsReq(1, 1) /\ log[i].status = 200
    /\ CallsFor(1, "s") = {}
    /\ CallsFor(2, "t") = {}
    /\ TagEntries(1, "a") # {}
    /\ TagEntries(2, "x") # {}

(***************************************************************************)
(* C20.  Number extraction, on the titles process_store1 iterates over:    *)
(* 'Eau de Parfum 149' gives 149.0 and '1 000,00 kr Gift Card' gives no    *)
(* match.  The pattern rejects the '1', which blanks and digits follow,    *)
(* and then matches the '000' before the comma.                            *)
(***************************************************************************)
C20_ExtractionExamples ==
    \A i \in 1..Len(store_map) :
        /\ store_map[i].title = Eau149 =>
              extract_perfume_number_from_product_title(store_map[i].title)
                  = FloatVal(1, <<"1", "4", "9">>, <<>>)
        /\ store_map[i].title = GiftCard =>
              extract_perfume_number_from_product_title(store_map[i].title) = NoNumber

(***************************************************************************)
(* C21.  Tag canonicalization: 'best seller' and 'bestseller', in any      *)
(* letter case and from the cache row or the live tags, are written        *)
(* 'bestseller' before the set is built: no tag list sent holds            *)
(* 'best seller', none holds two tags that are equal or are the two        *)
(* spellings, and with a quantity > 0 a product that has either spelling   *)
(* in its live tags or in the tags merged into them ends in the            *)
(* 'bestsellers' collection of its store.                                  *)
(***************************************************************************)
C21_OneSpellingOfBestseller ==
    /\ \A i \in 1..Len(log) :
          log[i].req.op = "tags" =>
              /\ \A k \in 1..Len(log[i].req.tags) :
                    LowerTag(StripTag(log[i].req.tags[k])) # "best seller"
              /\ \A k, m \in 1..Len(log[i].req.tags) :
                    k # m => NormTag(log[i].req.tags[k]) # NormTag(log[i].req.tags[m])
    /\ \A st \in Stores : \A pid \in Pids(st) :
          /\ Finished(st, pid)
          /\ Qty(st, pid) > 0
          /\ "bestseller" \in NormSet(before.tags[st][pid]) \cup MergedSource(st, pid)
          => CollMap[st].bestsellers \in collects[st][pid]

C21_Witness ==
    /\ Finished(1, "a")
    /\ Qty(1, "a") > 0
    /\ "BESTSELLER" \in Range(cache["a"].tags)
    /\ " Best Seller" \in Range(before.tags[1]["a"])
    /\ \E i \in TagEntries(1, "a") :
          { k \in 1..Len(log[i].req.tags) : log[i].req.tags[k] = "bestseller" } # {}
    /\ CollMap[1].bestsellers \notin before.collects[1]["a"]
    /\ CollMap[1].bestsellers \in collects[1]["a"]

(***************************************************************************)
(* C22.  After update_collections_for_product has run for a product, every *)
(* call accepted, the product is a member of configured collections only:  *)
(* its memberships are exactly the wanted ones, so every former membership *)
(* that is not wanted is gone, those in collections outside the store's    *)
(* series table included, and with quantity 0 no membership is left.       *)
(***************************************************************************)
C22_MembershipWithinConfigured ==
    \A st \in Stores : \A pid \in Pids(st) :
        Finished(st, pid) =>
            /\ collects[st][pid] \subseteq { CollMap[st][k] : k \in DOMAIN CollMap[st] }
            /\ collects[st][pid] = WantedOf(st, pid)
            /\ \A cid \in before.collects[st][pid] \ WantedOf(st, pid) :
                  /\ cid \notin collects[st][pid]
                  /\ CollEntries("collect_delete", st, pid, cid) # {}
            /\ Qty(st, pid) = 0 => collects[st][pid] = {}

C22_Witness ==
    /\ Finished(2, "x")
    /\ Qty(2, "x") > 0
    /\ before.collects[2]["x"] = {21, 29}
    /\ 29 \notin { CollMap[2][k] : k \in DOMAIN CollMap[2] }
    /\ WantedOf(2, "x") = {24}
    /\ CollEntries("collect_delete", 2, "x", 29) # {}
    /\ CollEntries("collect_delete", 2, "x", 21) # {}
    /\ collects[2]["x"] = {24}

\* a page request is answered: after a 200 with a next link of the
\* server's chain (the products of the store, or the memberships of the
\* product, PageSize to a page) the next page of the fetch is requested,
\* else the fetch is over, and a listing requested next is another fetch at
\* its first page
OnePagePerStep ==
    (pc \in {"list1", "list2", "collects"} /\ Len(log') = Len(log) + 1) =>
        LET sameFetch == /\ pc' = pc
                         /\ proc' = proc
                         /\ call'.op = call.op
                         /\ call'.store = call.store
                         /\ call'.pid = call.pid
        IN  IF /\ log'[Len(log')].status = 200
               /\ HasNext(IF call.op = "collects"
                          THEN SortIds(collects[call.store][call.pid])
                          ELSE catalog[call.store].order, call.page)
            THEN sameFetch /\ call'.page = call.page + 1
            ELSE /\ ~ sameFetch
                 /\ call'.op \in {"products", "collects"} => call'.page = 1

(***************************************************************************)
(* C23.  Termination of the paginated fetch: fetch_store_id_map,           *)
(* fetch_store_title_map and get_collections_for_product request one page  *)
(* per loop step and stop at the first answer without next link or with a  *)
(* non-200 status; with every request answered and a finite chain of next  *)
(* links each fetch that has started is eventually over, and within a      *)
(* fetch no page is requested a second time.  A request that runs out of   *)
(* retries is never answered and ends the run.  A page answered twice in   *)
(* a run is a page of the primary listing, which process_store1 and        *)
(* process_store2 each fetch once.                                         *)
(***************************************************************************)
C23_PaginatedFetchTerminates ==
    /\ [][OnePagePerStep]_vars
    /\ [] \A i \in 1..Len(log) : \A j \in (i + 1)..Len(log) :
            /\ log[i].req.op \in {"products", "collects"}
            /\ log[j].req = log[i].req
            => /\ log[i].req.store = 1
               /\ \E m \in (i + 1)..j : log[m].req = ProductsReq(1, 1)
               /\ \A m \in (j + 1)..Len(log) : log[m].req # log[i].req
    /\ (pc = "list1" /\ proc = 1) ~> (pc # "list1" \/ proc # 1)
    /\ (pc = "list1" /\ proc = 2) ~> (pc # "list1" \/ proc # 2)
    /\ (pc = "list2") ~> (pc # "list2")
    /\ (pc = "collects") ~> (pc # "collects")

C23_Witness ==
    /\ pc = "done"
    /\ IdsOf(store_map) = <<"b", "a">>
    /\ \E i \in 1..(Len(log) - 2) :
          /\ log[i].req = ProductsReq(1, 1)
          /\ log[i + 1].req = ProductsReq(1, 2)
          /\ log[i + 2].req.op # "products"
    /\ \E i \in 1..(Len(log) - 2) :
          /\ log[i].req = ProductsReq(2, 1)
          /\ log[i + 1].req = ProductsReq(2, 2)
          /\ log[i + 1].status = 200
    /\ \E i \in 1..(Len(log) - 2) :
          /\ log[i].req = CollectsReq(1, "a", 1)
          /\ log[i + 1].req = CollectsReq(1, "a", 2)
          /\ log[i + 2].req.op # "collects"
    /\ Cardinality(SameReq(CollectsReq(1, "a", 1))) = 1

====
